---- MODULE Spec2Model ----
(***************************************************************************)
(* The banking demo server (server.js): the ledger kept in data.json       *)
(* (users, sessions, transactions), the session guard and the five routes. *)
(* Node runs each request to completion: the guard and the route handler   *)
(* use readFileSync/writeFileSync only, so one request is one atomic step. *)
(*                                                                         *)
(* JavaScript objects are functions from property names to values; a       *)
(* property read obj[key] on a JSON-parsed object finds own properties     *)
(* first and then the members every object inherits from Object.prototype. *)
(* Amounts and balances are integers (whole currency units); a request     *)
(* field that is absent from the JSON body is absent from the record.      *)
(***************************************************************************)
EXTENDS Integers, Sequences, FiniteSets, TLC

\* ------------------------------------------------------------- bounds
\* Math.random() values the program stores (session ids, transaction
\* correlation ids): at most MaxDraws successful logins and transfers.
MaxDraws == 3
\* Length of the transaction log.
MaxTxns == 2
\* Sessions ever created.
MaxLogins == 2
\* Date.now() ranges over 0..MaxClock.
MaxClock == 1
\* Requests received whose response has not been sent.
MaxInFlight == 2

\* ------------------------------------------------- JavaScript objects
EmptyObject == [k \in {} |-> ""]

Has(obj, key) == key \in DOMAIN obj

\* Names every plain object inherits from Object.prototype; obj[name] is a
\* truthy function (or, for __proto__, Object.prototype itself) that has
\* none of the own properties the server reads (id, userId, password,
\* accounts, balance, displayName).
ObjectPrototype ==
    {"constructor", "__proto__", "toString", "valueOf", "hasOwnProperty"}

\* obj[key]: "own", "inherited" (truthy) or "undefined" (falsy).
Lookup(obj, key) ==
    IF Has(obj, key) THEN "own"
    ELSE IF key \in ObjectPrototype THEN "inherited"
    ELSE "undefined"

\* The key a missing (undefined) value turns into when used as obj[undefined].
UndefinedKey == "undefined"

\* An optional property: absent, or present with one of the values.
Opt(key, values) == {EmptyObject} \cup {key :> v : v \in values}

\* ------------------------------------------------------------ fixtures
testUsers ==
    [ john_doe |->
        [ id |-> "john_doe", name |-> "John Doe", password |-> "password123",
          accounts |->
            [ checking |-> [balance |-> 5000, displayName |-> "Checking Account"],
              savings |-> [balance |-> 10000, displayName |-> "Savings Account"],
              investments |-> [balance |-> 15000, displayName |-> "Investment Account"] ] ],
      jane_smith |->
        [ id |-> "jane_smith", name |-> "Jane Smith", password |-> "secure456",
          accounts |->
            [ checking |-> [balance |-> 3000, displayName |-> "Checking Account"],
              savings |-> [balance |-> 8000, displayName |-> "Savings Account"] ] ] ]

\* ------------------------------------------- custom-splunk-logger: URL
\* The endpoints tried: the two forms the setup guide and the tests use, and
\* one written without its scheme.
HttpsEndpoint == "https://splunk.example.com:8088/services/collector"
HttpEndpoint == "http://splunk.example.com:8088/services/collector"
NoSchemeEndpoint == "splunk.example.com/services/collector"
Endpoints == {HttpsEndpoint, HttpEndpoint, NoSchemeEndpoint}
Tokens == {"test-token-123"}

\* new URL(endpoint): the parts sendToSplunk reads, or a TypeError (Invalid
\* URL) for a string that is no absolute URL.
URL(endpoint) ==
    IF endpoint = HttpsEndpoint
    THEN [ valid |-> TRUE, protocol |-> "https:", hostname |-> "splunk.example.com",
           port |-> "8088", pathname |-> "/services/collector" ]
    ELSE IF endpoint = HttpEndpoint
    THEN [ valid |-> TRUE, protocol |-> "http:", hostname |-> "splunk.example.com",
           port |-> "8088", pathname |-> "/services/collector" ]
    ELSE [valid |-> FALSE]

\* --------------------------------------- custom-splunk-logger: the logger
\* process.env as far as the logger reads it.
Envs ==
    { e @@ t : e \in Opt("SPLUNK_HEC_ENDPOINT", Endpoints),
               t \in Opt("SPLUNK_HEC_TOKEN", Tokens) }

\* part_003 5-15: a || b on two optional strings; a property that ends up
\* undefined is absent from the record.
CustomSplunkLogger(options, env) ==
    (IF Has(options, "endpoint") THEN "endpoint" :> options.endpoint
     ELSE IF Has(env, "SPLUNK_HEC_ENDPOINT") THEN "endpoint" :> env["SPLUNK_HEC_ENDPOINT"]
     ELSE EmptyObject)
    @@ (IF Has(options, "token") THEN "token" :> options.token
        ELSE IF Has(env, "SPLUNK_HEC_TOKEN") THEN "token" :> env["SPLUNK_HEC_TOKEN"]
        ELSE EmptyObject)
    @@ [ source |-> IF Has(options, "source") THEN options.source ELSE "banking-demo",
         sourcetype |-> IF Has(options, "sourcetype") THEN options.sourcetype ELSE "nodejs",
         index |-> IF Has(options, "index") THEN options.index ELSE "default" ]

\* server.js 38-42
ServerLoggerOptions ==
    [source |-> "banking-demo-app", sourcetype |-> "banking:transaction", index |-> "banking"]

\* this.endpoint && this.token
Configured(lg) == Has(lg, "endpoint") /\ Has(lg, "token")

\* require('os').hostname()
Hostname == "bank-host"

\* A Math.random() value the program does not store is named by the call,
\* within the operation, that drew it.
Random(k) == "0." \o ToString(k)
\* `${Date.now()}-${Math.random()}`
FreshCorrelationId(now, k) == ToString(now) \o "-" \o Random(k)

\* The empty string is the falsy string.
Falsy(string) == string = ""

\* A logger that never takes the payload's id.
CorrelationIdAlwaysFresh(payload, now, k) == FreshCorrelationId(now, k)

\* part_003 34: data.correlationId || `${Date.now()}-${Math.random()}`
CorrelationIdOf(payload, now, k) ==
    IF Has(payload, "correlationId") /\ ~Falsy(payload.correlationId)
    THEN payload.correlationId ELSE FreshCorrelationId(now, k)

\* The calls a handler makes on the logger: log(event, user, data) and
\* debug(message).
LogCall(event, user, payload) ==
    [method |-> "log", event |-> event, user |-> user, data |-> payload]
DebugCall(message) == [method |-> "debug", message |-> message]

\* part_003 49-62. time is Date.now() / 1000, kept here in milliseconds.
DebugEntry(lg, call, now, k) ==
    [ time |-> now, host |-> Hostname, source |-> lg.source, sourcetype |-> lg.sourcetype,
      event |-> [ level |-> "DEBUG", message |-> call.message, app |-> "banking-demo",
                  environment |-> "demo" ] ]

\* A log envelope whose user_id never falls back to the username.
LogEntryIdOnly(lg, call, now, k) ==
    [ time |-> now, host |-> Hostname, source |-> lg.source, sourcetype |-> lg.sourcetype,
      event |->
        [ event_type |-> call.event,
          user_id |-> IF Has(call.user, "id") THEN call.user.id ELSE "unknown",
          user_name |-> IF Has(call.user, "name") THEN call.user.name ELSE "unknown",
          data |-> call.data,
          app |-> "banking-demo",
          environment |-> "demo",
          correlation_id |-> CorrelationIdOf(call.data, now, k) ] ]

\* A log envelope built without its correlation id.
LogEntryUncorrelated(lg, call, now, k) ==
    [ time |-> now, host |-> Hostname, source |-> lg.source, sourcetype |-> lg.sourcetype,
      event |->
        [ event_type |-> call.event,
          user_id |-> IF Has(call.user, "id") THEN call.user.id
                      ELSE IF Has(call.user, "username") THEN call.user.username
                      ELSE "unknown",
          user_name |-> IF Has(call.user, "name") THEN call.user.name ELSE "unknown",
          data |-> call.data,
          app |-> "banking-demo",
          environment |-> "demo" ] ]

\* part_003 20-36
LogEntry(lg, call, now, k) ==
    [ time |-> now, host |-> Hostname, source |-> lg.source, sourcetype |-> lg.sourcetype,
      event |->
        [ event_type |-> call.event,
          user_id |-> IF Has(call.user, "id") THEN call.user.id
                      ELSE IF Has(call.user, "username") THEN call.user.username
                      ELSE "unknown",
          user_name |-> IF Has(call.user, "name") THEN call.user.name ELSE "unknown",
          data |-> call.data,
          app |-> "banking-demo",
          environment |-> "demo",
          correlation_id |-> CorrelationIdOf(call.data, now, k) ] ]

\* The envelope of the k-th call of an operation.
EntryOf(lg, call, now, k) ==
    IF call.method = "log" THEN LogEntry(lg, call, now, k) ELSE DebugEntry(lg, call, now, k)

\* part_003 39 and 64: the console.log line of a call.
ConsoleLine(call) ==
    IF call.method = "log"
    THEN [ tag |-> "[CUSTOM-SPLUNK]", EVENT |-> call.event,
           USER |-> call.user, DATA |-> call.data ]
    ELSE [tag |-> "[CUSTOM-DEBUG]", message |-> call.message]

\* A logger that sends whenever it has an endpoint.
SendsWithoutToken(lg) == Has(lg, "endpoint") /\ URL(lg.endpoint).valid

\* part_003 42-44, 66-68 and 73: the call hands its envelope to sendToSplunk
\* and the request is made; new URL(this.endpoint) throws before that when
\* the endpoint is no URL.
Sends(lg) == Configured(lg) /\ URL(lg.endpoint).valid
Raises(lg) == Configured(lg) /\ ~URL(lg.endpoint).valid

\* part_003 71-111: the POST request of one envelope.
sendToSplunk(lg, logEntry) ==
    LET url == IF Has(lg, "endpoint") THEN URL(lg.endpoint) ELSE [valid |-> FALSE]
    IN  [ client |-> IF url.protocol = "https:" THEN "https" ELSE "http",
          options |->
            [ hostname |-> url.hostname, port |-> url.port, path |-> url.pathname,
              method |-> "POST",
              \* `Splunk ${this.token}`
              headers |-> [ Authorization |->
                              "Splunk " \o (IF Has(lg, "token") THEN lg.token
                                            ELSE UndefinedKey),
                            ContentType |-> "application/json" ],
              rejectUnauthorized |-> FALSE ],
          postData |-> logEntry ]

\* The lines and requests of a handler's calls, in order: every call writes
\* its line; a configured logger then sends, and a call that throws ends the
\* handler, so the calls after it are never made.
RECURSIVE Made(_, _)
Made(lg, calls) ==
    IF calls = <<>> THEN <<>>
    ELSE IF Raises(lg) THEN <<Head(calls)>>
    ELSE <<Head(calls)>> \o Made(lg, Tail(calls))

LinesOf(lg, calls) == [i \in DOMAIN Made(lg, calls) |-> ConsoleLine(Made(lg, calls)[i])]

RequestsOf(lg, calls, now) ==
    IF Sends(lg)
    THEN [i \in DOMAIN calls |-> sendToSplunk(lg, EntryOf(lg, calls[i], now, i))]
    ELSE <<>>

\* ---------------------------------------------------------------- state
VARIABLES
    data,    \* data.json: [users, sessions, transactions]
    clock,   \* Date.now()
    draws,   \* how many stored Math.random() values have been drawn
    inbox,   \* the requests received whose handler has not run yet
    req,     \* the request handled by the last step
    res,     \* the response sent by the last step
    customLogger,  \* the CustomSplunkLogger the server constructs
    app,     \* the process: "starting", "listening" or "crashed"
    console, \* the lines the custom logger wrote in the last step
    hec,     \* the POST requests of the last operation the collector has
             \* not answered yet, in the order they were made
    handlers \* the handler invocations followed statement by statement:
             \* the request, the position in the handler, the ledger it
             \* loaded and the response it sent

vars == <<data, clock, draws, inbox, req, res, customLogger, app, console, hec, handlers>>

NoRequest == [path |-> "none", headers |-> EmptyObject, body |-> EmptyObject]
NoResponse == [status |-> 0, body |-> EmptyObject]

Init ==
    /\ data = [users |-> testUsers, sessions |-> EmptyObject, transactions |-> <<>>]
    /\ clock = 0
    /\ draws = 0
    /\ inbox = {}
    /\ req = NoRequest
    /\ res = NoResponse
    \* no SPLUNK_HEC_* variable is set; the listen callback has run
    /\ customLogger = CustomSplunkLogger(ServerLoggerOptions, EmptyObject)
    /\ app = "listening"
    /\ console = <<>>
    /\ hec = <<>>
    /\ handlers = {}

\* ----------------------------------------------------------- responses
Json(status, body) == [status |-> status, body |-> body]
Error(status, message) == Json(status, [error |-> message])
\* res.json writes NaN as null and leaves undefined properties out.
Null == "null"
\* An exception escaping a handler: Express answers 500.
Thrown == Json(500, [error |-> "TypeError"])

\* ------------------------------------------------- telemetry of a handler
\* What the handler does given what its code does without the logger (out):
\* the first logger call comes before any check or write in all five
\* handlers, so a call that throws leaves the ledger as it was.
Outcome(out, calls) ==
    IF calls # <<>> /\ Raises(customLogger)
    THEN [res |-> Thrown, data |-> data]
    ELSE out

\* The logger calls of the step: their lines, and their requests in flight.
Telemetry(calls) ==
    /\ console' = LinesOf(customLogger, calls)
    /\ hec' = RequestsOf(customLogger, calls, clock)
    /\ UNCHANGED <<customLogger, app, handlers>>

\* The server is up and no request is being handled.
Idle == app = "listening" /\ req = NoRequest

\* req.ip
Ip == "::1"

\* server.js 12
PORT == 3000

\* req.user as the logger sees it: the user record, or the function Object.
Actor(d, user) == IF user.kind = "own" THEN d.users[user.key] ELSE [name |-> "Object"]

\* ---------------------------------------------------------- request set
Usernames == {"john_doe", "jane_smith", "constructor", "nobody"}
Passwords == {"password123", "secure456"}

LoginBodies ==
    {u @@ p : u \in Opt("username", Usernames), p \in Opt("password", Passwords)}

\* ------------------------------------------------------------- POST /login
\* `${...}` of Date.now() and Math.random(); the n-th stored draw is n.
SessionId(now, draw) == "session_" \o ToString(now) \o "_" \o ToString(draw)

\* A login of a user of the ledger that replaces the sessions of the store by
\* the new one.
LoginSingleSession(d, body, now, draw) ==
    LET username == IF Has(body, "username") THEN body.username ELSE UndefinedKey
        sessionId == SessionId(now, draw)
    IN  IF /\ Has(d.users, username) /\ Has(body, "password")
           /\ d.users[username].password = body.password
        THEN [ res |->
                 Json(200,
                   [ sessionId |-> sessionId,
                     user |-> [ id |-> d.users[username].id,
                                name |-> d.users[username].name,
                                accounts |-> d.users[username].accounts ] ]),
               data |->
                 [d EXCEPT !.sessions =
                    sessionId :> [userId |-> username, createdAt |-> now]] ]
        ELSE [res |-> Error(401, "Invalid credentials"), data |-> d]

\* server.js 62-97. Returns the response and the data written back.
Login(d, body, now, draw) ==
    LET username == IF Has(body, "username") THEN body.username ELSE UndefinedKey
        user == Lookup(d.users, username)
        \* user.password !== password
        mismatch ==
            IF user = "own"
            THEN \/ ~Has(body, "password")
                 \/ d.users[username].password # body.password
            ELSE Has(body, "password")
        sessionId == SessionId(now, draw)
    IN  IF user = "undefined" \/ mismatch
        THEN [res |-> Error(401, "Invalid credentials"), data |-> d]
        ELSE [ res |->
                 Json(200,
                   [ sessionId |-> sessionId,
                     user |->
                       IF user = "own"
                       THEN [ id |-> d.users[username].id,
                              name |-> d.users[username].name,
                              accounts |-> d.users[username].accounts ]
                       ELSE [name |-> "Object"] ]),
               data |->
                 [d EXCEPT !.sessions =
                    (sessionId :> [userId |-> username, createdAt |-> now]) @@ @] ]

\* server.js 71: `${username}-${Date.now()}-${Math.random()}`
LoginCorrelationId(username, now) == username \o "-" \o FreshCorrelationId(now, 0)

\* server.js 68, 75, 83 and 93: the logger calls of a login.
LoginCalls(d, body, now, draw) ==
    LET username == IF Has(body, "username") THEN body.username ELSE UndefinedKey
        \* {username}
        attempt == IF Has(body, "username") THEN [username |-> username] ELSE EmptyObject
        out == Login(d, body, now, draw)
    IN  << LogCall("BANKING_LOGIN_INITIATED", attempt, [ip |-> Ip]),
           DebugCall("CREDENTIAL_VALIDATION_PHASE_1"),
           IF out.res.status = 200
           THEN LogCall("BANKING_LOGIN_SUCCESS",
                        IF Has(d.users, username) THEN d.users[username]
                        ELSE [name |-> "Object"],
                        [ sessionId |-> out.res.body.sessionId,
                          correlationId |-> LoginCorrelationId(username, now) ])
           ELSE LogCall("BANKING_LOGIN_FAILED", attempt,
                        [reason |-> "INVALID_CREDENTIALS"]) >>

\* The handler's step, whenever it runs.
LoginRoute(body) ==
    LET calls == LoginCalls(data, body, clock, draws + 1)
        out == Outcome(Login(data, body, clock, draws + 1), calls)
    IN  /\ req' = [path |-> "/login", headers |-> EmptyObject, body |-> body]
        /\ res' = out.res
        /\ data' = out.data
        /\ draws' = IF out.res.status = 200 THEN draws + 1 ELSE draws
        /\ Telemetry(calls)
        /\ UNCHANGED clock

\* The bounds let a login through that would create a session.
LoginWithinBounds(body) ==
    Login(data, body, clock, draws + 1).res.status = 200 =>
        draws < MaxDraws /\ draws - Len(data.transactions) < MaxLogins

LoginRequest(body) ==
    Idle /\ LoginWithinBounds(body) /\ LoginRoute(body) /\ UNCHANGED inbox

\* ------------------------------------------------ authentication middleware
\* A guard that reads the user at the session id instead of at the
\* session's userId.
AuthenticateBySessionId(d, headers) ==
    LET present == Has(headers, "x-session-id")
        sessionId == IF present THEN headers["x-session-id"] ELSE UndefinedKey
        session == IF present THEN Lookup(d.sessions, sessionId) ELSE "undefined"
    IN  IF session = "undefined"
        THEN [pass |-> FALSE]
        ELSE [pass |-> TRUE, user |-> [kind |-> Lookup(d.users, sessionId), key |-> sessionId]]

\* server.js 45-59 for a path that is not /login, / or under /public.
\* pass = FALSE is the 401; otherwise user is req.user: the kind of value
\* data.users[data.sessions[sessionId].userId] is, and the key it was read at.
Authenticate(d, headers) ==
    LET present == Has(headers, "x-session-id")
        sessionId == IF present THEN headers["x-session-id"] ELSE UndefinedKey
        session == IF present THEN Lookup(d.sessions, sessionId) ELSE "undefined"
        userId == IF session = "own" THEN d.sessions[sessionId].userId ELSE UndefinedKey
    IN  IF session = "undefined"
        THEN [pass |-> FALSE]
        ELSE [pass |-> TRUE, user |-> [kind |-> Lookup(d.users, userId), key |-> userId]]

NotAuthenticated == Error(401, "Not authenticated")

\* req.user.id once req.user is not undefined: own users carry an id, the
\* members of Object.prototype have none.
UserId(d, user) == IF user.kind = "own" THEN d.users[user.key].id ELSE UndefinedKey

\* The x-session-id values tried: none, a member of Object.prototype, and
\* every id the server may have handed out so far (still stored, logged out,
\* or never a session).
SessionHeaders(d, now, drawn) ==
    {EmptyObject} \cup
    { "x-session-id" :> s :
        s \in {"constructor"} \cup DOMAIN d.sessions
              \cup {SessionId(t, n) : t \in 0..now, n \in 1..drawn} }

\* A session the store holds: the requests of such a client are tried with
\* every body, the others (which never reach the body) with the sample.
Stored(d, headers) == Has(headers, "x-session-id") /\ Has(d.sessions, headers["x-session-id"])

\* ---------------------------------------------------------- POST /transfer
Amounts == {-100, 0, 100, 6000}
ToAccounts == {"checking", "savings", "constructor", "nonexistent"}
\* fromAccount defaults to checking when the body has none.
FromAccounts == {"constructor", "nonexistent"}

TransferBodies ==
    { a @@ t @@ f : a \in Opt("amount", Amounts),
                    t \in {"toAccount" :> k : k \in ToAccounts},
                    f \in Opt("fromAccount", FromAccounts) }

SampleTransfer == [amount |-> 100, toAccount |-> "savings"]

IsoString(now) == "T" \o ToString(now)
TxnId(now) == "txn_" \o ToString(now)
CorrelationId(id, now, draw) == id \o "-" \o ToString(now) \o "-" \o ToString(draw)

\* A check that lets zero through: amount < 0 for amount <= 0.
InvalidAmountStrict(body) == ~Has(body, "amount") \/ body.amount < 0

\* !amount || amount <= 0
InvalidAmount(body) == ~Has(body, "amount") \/ body.amount = 0 \/ body.amount <= 0

\* A handler without funds check.
InsufficientFundsNever(accounts, fromAccount, amount) == FALSE

\* A funds check that compares the wrong way round.
InsufficientFundsInverted(accounts, fromAccount, amount) ==
    /\ Has(accounts, fromAccount)
    /\ accounts[fromAccount].balance > amount

\* fromAccountData.balance < amount; the balance of an inherited member is
\* undefined (NaN once written), and undefined < amount is false.
InsufficientFunds(accounts, fromAccount, amount) ==
    /\ Has(accounts, fromAccount)
    /\ accounts[fromAccount].balance < amount

\* A debit that adds.
DebitAdds(accounts, fromAccount, amount) ==
    IF Has(accounts, fromAccount)
    THEN [accounts EXCEPT ![fromAccount].balance = @ + amount]
    ELSE accounts

\* fromAccountData.balance -= amount; a write to an inherited member lands on
\* the shared function object, not in the data that is saved.
Debit(accounts, fromAccount, amount) ==
    IF Has(accounts, fromAccount)
    THEN [accounts EXCEPT ![fromAccount].balance = @ - amount]
    ELSE accounts

\* A credit that is never written.
CreditNothing(accounts, toAccount, amount) == accounts

\* toAccountData.balance += amount
Credit(accounts, toAccount, amount) ==
    IF Has(accounts, toAccount)
    THEN [accounts EXCEPT ![toAccount].balance = @ + amount]
    ELSE accounts

\* server.js 99-166
Transfer(d, user, body, now, draw) ==
    IF user.kind = "undefined" THEN [res |-> Thrown, data |-> d]
    ELSE IF InvalidAmount(body) THEN [res |-> Error(400, "Invalid amount"), data |-> d]
    ELSE
    LET id == UserId(d, user)
        amount == body.amount
        fromAccount == IF Has(body, "fromAccount") THEN body.fromAccount ELSE "checking"
        toAccount == IF Has(body, "toAccount") THEN body.toAccount ELSE UndefinedKey
    IN  IF Lookup(d.users, id) = "undefined" THEN [res |-> Thrown, data |-> d]
        ELSE IF Lookup(d.users, id) = "inherited"
        THEN [res |-> Error(400, "Invalid source account"), data |-> d]
        ELSE
        LET accounts == d.users[id].accounts
            after == Credit(Debit(accounts, fromAccount, amount), toAccount, amount)
            txn == [ id |-> TxnId(now), from |-> fromAccount, to |-> toAccount,
                     userId |-> id, amount |-> amount, timestamp |-> IsoString(now),
                     correlationId |-> CorrelationId(id, now, draw) ]
        IN  IF Lookup(accounts, fromAccount) = "undefined"
            THEN [res |-> Error(400, "Invalid source account"), data |-> d]
            ELSE IF Lookup(accounts, toAccount) = "undefined"
            THEN [res |-> Error(400, "Invalid destination account"), data |-> d]
            ELSE IF InsufficientFunds(accounts, fromAccount, amount)
            THEN [res |-> Error(400, "Insufficient funds"), data |-> d]
            ELSE [ res |->
                     Json(200,
                       [success |-> TRUE]
                       @@ ("newBalance" :>
                             IF Has(after, fromAccount)
                             THEN after[fromAccount].balance ELSE Null)
                       @@ (IF Has(after, toAccount)
                           THEN "toAccountName" :> after[toAccount].displayName
                           ELSE EmptyObject)),
                   data |->
                     [d EXCEPT !.users[id].accounts = after,
                               !.transactions = Append(@, txn)] ]

\* server.js 104, 112 and 158: the logger calls of a transfer. A request
\* whose req.user is undefined throws at line 102, before the first call.
TransferCallsSilent(d, user, body, now, draw) ==
    IF user.kind = "undefined" THEN <<>>
    ELSE << LogCall("BANKING_TRANSFER_INITIATED", Actor(d, user), body),
            DebugCall("REQUEST_VALIDATION_PHASE_1") >>

TransferCalls(d, user, body, now, draw) ==
    IF user.kind = "undefined" THEN <<>>
    ELSE
    LET out == Transfer(d, user, body, now, draw)
        fromAccount == IF Has(body, "fromAccount") THEN body.fromAccount ELSE "checking"
    IN  << LogCall("BANKING_TRANSFER_INITIATED", Actor(d, user), body),
           DebugCall("REQUEST_VALIDATION_PHASE_1") >>
        \o IF out.res.status = 200
           THEN << LogCall("BANKING_TRANSFER_SUCCESS", Actor(d, user),
                     [ amount |-> body.amount, fromAccount |-> fromAccount,
                       correlationId |-> CorrelationId(UserId(d, user), now, draw) ]
                     @@ (IF Has(body, "toAccount")
                         THEN "toAccount" :> body.toAccount ELSE EmptyObject)) >>
           ELSE <<>>

\* The guard and the handler behind it.
TransferOut(headers, body) ==
    LET auth == Authenticate(data, headers)
    IN  IF auth.pass
        THEN [ out |-> Transfer(data, auth.user, body, clock, draws + 1),
               calls |-> TransferCalls(data, auth.user, body, clock, draws + 1) ]
        ELSE [out |-> [res |-> NotAuthenticated, data |-> data], calls |-> <<>>]

TransferRoute(headers, body) ==
    LET calls == TransferOut(headers, body).calls
        out == Outcome(TransferOut(headers, body).out, calls)
    IN  /\ req' = [path |-> "/transfer", headers |-> headers, body |-> body]
        /\ res' = out.res
        /\ data' = out.data
        /\ draws' = IF out.res.status = 200 THEN draws + 1 ELSE draws
        /\ Telemetry(calls)
        /\ UNCHANGED clock

\* The bounds let a transfer through that would append a record.
TransferWithinBounds(headers, body) ==
    TransferOut(headers, body).out.res.status = 200 =>
        draws < MaxDraws /\ Len(data.transactions) < MaxTxns

TransferRequest(headers, body) ==
    /\ Idle /\ TransferWithinBounds(headers, body)
    /\ TransferRoute(headers, body) /\ UNCHANGED inbox

\* ------------------------------------------------------------ GET /balance
BalanceQueries == Opt("account", {"savings", "constructor", "nonexistent"})

\* An inquiry answered from the ledger as it was when the server started.
BalanceAsOpened(d, user, query) ==
    LET accountType == IF Has(query, "account") THEN query.account ELSE "checking"
    IN  IF user.kind = "own" /\ Has(testUsers[user.key].accounts, accountType)
        THEN [ res |->
                 Json(200,
                   [ balance |-> testUsers[user.key].accounts[accountType].balance,
                     accountName |-> testUsers[user.key].accounts[accountType].displayName,
                     accountType |-> accountType ]),
               data |-> d ]
        ELSE [res |-> Error(400, "Invalid account type"), data |-> d]

\* server.js 168-192
Balance(d, user, query) ==
    IF user.kind = "undefined" THEN [res |-> Thrown, data |-> d]
    ELSE
    LET id == UserId(d, user)
        \* req.query.account || 'checking'
        accountType == IF Has(query, "account") THEN query.account ELSE "checking"
    IN  IF Lookup(d.users, id) = "undefined" THEN [res |-> Thrown, data |-> d]
        ELSE IF Lookup(d.users, id) = "inherited"
             \/ Lookup(d.users[id].accounts, accountType) = "undefined"
        THEN [res |-> Error(400, "Invalid account type"), data |-> d]
        ELSE IF Lookup(d.users[id].accounts, accountType) = "inherited"
        \* balance and displayName of an inherited member are undefined:
        \* res.json leaves them out
        THEN [res |-> Json(200, [accountType |-> accountType]), data |-> d]
        ELSE [ res |->
                 Json(200,
                   [ balance |-> d.users[id].accounts[accountType].balance,
                     accountName |-> d.users[id].accounts[accountType].displayName,
                     accountType |-> accountType ]),
               data |-> d ]

\* server.js 173 and 189: the logger calls of a balance inquiry.
BalanceCalls(d, user, query) ==
    IF user.kind = "undefined" THEN <<>>
    ELSE
    LET out == Balance(d, user, query)
        accountType == IF Has(query, "account") THEN query.account ELSE "checking"
    IN  << LogCall("BANKING_BALANCE_CHECK", Actor(d, user), [account |-> accountType]) >>
        \o IF out.res.status = 200
           THEN << LogCall("BANKING_BALANCE_RESPONSE", Actor(d, user),
                     [account |-> accountType]
                     @@ (IF Has(out.res.body, "balance")
                         THEN "balance" :> out.res.body.balance ELSE EmptyObject)) >>
           ELSE <<>>

BalanceRoute(headers, query) ==
    LET auth == Authenticate(data, headers)
        calls == IF auth.pass THEN BalanceCalls(data, auth.user, query) ELSE <<>>
        out == Outcome(IF auth.pass
                       THEN Balance(data, auth.user, query)
                       ELSE [res |-> NotAuthenticated, data |-> data], calls)
    IN  /\ req' = [path |-> "/balance", headers |-> headers, body |-> query]
        /\ res' = out.res
        /\ data' = out.data
        /\ Telemetry(calls)
        /\ UNCHANGED <<clock, draws>>

BalanceRequest(headers, query) ==
    Idle /\ BalanceRoute(headers, query) /\ UNCHANGED inbox

\* ------------------------------------------------------- GET /transactions
\* new Date(string): the time of a date string, or an Invalid Date.
IsDate(string) == \E t \in 0..MaxClock : string = IsoString(t)
ParseDate(string) == CHOOSE t \in 0..MaxClock : string = IsoString(t)

\* A start bound that lets every record through when either date is invalid.
DateGeqOrInvalid(a, b) == IsDate(a) /\ IsDate(b) => ParseDate(a) >= ParseDate(b)

\* An end bound that excludes the records of the bound's own instant.
DateBefore(a, b) == IsDate(a) /\ IsDate(b) /\ ParseDate(a) < ParseDate(b)

\* new Date(a) >= new Date(b) and <=: false when either is an Invalid Date.
DateGeq(a, b) == IsDate(a) /\ IsDate(b) /\ ParseDate(a) >= ParseDate(b)
DateLeq(a, b) == IsDate(a) /\ IsDate(b) /\ ParseDate(a) <= ParseDate(b)

\* A listing in the order of the log, oldest first.
KeepsLogOrder(txns) == txns

\* transactions.sort((a, b) => new Date(b.timestamp) - new Date(a.timestamp)):
\* a stable sort, newest first.
RECURSIVE SortNewestFirst(_)
SortNewestFirst(txns) ==
    IF txns = <<>> THEN <<>>
    ELSE LET sorted == SortNewestFirst(SubSeq(txns, 1, Len(txns) - 1))
             last == txns[Len(txns)]
             Before(txn) == ParseDate(txn.timestamp) >= ParseDate(last.timestamp)
             After(txn) == ~Before(txn)
         IN  SelectSeq(sorted, Before) \o <<last>> \o SelectSeq(sorted, After)

TransactionsQueries ==
    { a @@ s @@ e : a \in Opt("accountType", {"savings"}),
                    s \in Opt("startDate", {IsoString(1), "yesterday"}),
                    e \in Opt("endDate", {IsoString(0)}) }

\* A listing that sorts the log itself and saves it.
TransactionsSortsLog(d, user, query) ==
    [ res |-> Json(200, [transactions |-> SortNewestFirst(d.transactions)]),
      data |-> [d EXCEPT !.transactions = SortNewestFirst(@)] ]

\* server.js 194-251
Transactions(d, user, query) ==
    IF user.kind = "undefined" THEN [res |-> Thrown, data |-> d]
    ELSE
    LET OfUser(txn) == user.kind = "own" /\ txn.userId = UserId(d, user)
        OfAccount(txn) ==
            Has(query, "accountType") =>
                txn.from = query.accountType \/ txn.to = query.accountType
        FromStart(txn) ==
            Has(query, "startDate") => DateGeq(txn.timestamp, query.startDate)
        ToEnd(txn) ==
            Has(query, "endDate") => DateLeq(txn.timestamp, query.endDate)
        transactions ==
            SelectSeq(SelectSeq(SelectSeq(SelectSeq(d.transactions,
                OfUser), OfAccount), FromStart), ToEnd)
    IN  [ res |-> Json(200, [transactions |-> SortNewestFirst(transactions)]),
          data |-> d ]

\* accountType.toUpperCase() of the account kinds the queries name.
ToUpperCase(string) ==
    CASE string = "checking" -> "CHECKING"
      [] string = "savings" -> "SAVINGS"
      [] string = "investments" -> "INVESTMENTS"
      [] string = "nonexistent" -> "NONEXISTENT"
      [] string = "constructor" -> "CONSTRUCTOR"

\* server.js 199, 206, 214, 225, 236 and 247: the logger calls of a history
\* request.
TransactionsCalls(d, user, query, now) ==
    IF user.kind = "undefined" THEN <<>>
    ELSE
    LET out == Transactions(d, user, query)
    IN  << LogCall("BANKING_TRANSACTION_HISTORY", Actor(d, user), query),
           DebugCall("TRANSACTION_FETCH_PHASE_1") >>
        \o (IF Has(query, "accountType")
            THEN <<DebugCall("FILTER_ACCOUNT_" \o ToUpperCase(query.accountType))>>
            ELSE <<>>)
        \o (IF Has(query, "startDate")
            THEN <<DebugCall("FILTER_START_DATE_" \o query.startDate)>> ELSE <<>>)
        \o (IF Has(query, "endDate")
            THEN <<DebugCall("FILTER_END_DATE_" \o query.endDate)>> ELSE <<>>)
        \o << LogCall("BANKING_TRANSACTION_HISTORY_SUCCESS", Actor(d, user),
                 [ count |-> Len(out.res.body.transactions),
                   correlationId |->
                     UserId(d, user) \o "-" \o FreshCorrelationId(now, 0) ]) >>

TransactionsRoute(headers, query) ==
    LET auth == Authenticate(data, headers)
        calls == IF auth.pass
                 THEN TransactionsCalls(data, auth.user, query, clock) ELSE <<>>
        out == Outcome(IF auth.pass
                       THEN Transactions(data, auth.user, query)
                       ELSE [res |-> NotAuthenticated, data |-> data], calls)
    IN  /\ req' = [path |-> "/transactions", headers |-> headers, body |-> query]
        /\ res' = out.res
        /\ data' = out.data
        /\ Telemetry(calls)
        /\ UNCHANGED <<clock, draws>>

TransactionsRequest(headers, query) ==
    Idle /\ TransactionsRoute(headers, query) /\ UNCHANGED inbox

\* ------------------------------------------------------------ POST /logout
\* A logout that answers without deleting the session.
LogoutKeepsSession(d, user, headers) ==
    IF user.kind = "undefined" THEN [res |-> Thrown, data |-> d]
    ELSE [res |-> Json(200, [success |-> TRUE]), data |-> d]

\* A logout that ends every session of the store.
LogoutEndsEverySession(d, user, headers) ==
    IF user.kind = "undefined" THEN [res |-> Thrown, data |-> d]
    ELSE [ res |-> Json(200, [success |-> TRUE]),
           data |-> [d EXCEPT !.sessions = EmptyObject] ]

\* server.js 253-270
Logout(d, user, headers) ==
    IF user.kind = "undefined" THEN [res |-> Thrown, data |-> d]
    ELSE [ res |-> Json(200, [success |-> TRUE]),
           data |->
             [d EXCEPT !.sessions =
                [s \in DOMAIN @ \ {headers["x-session-id"]} |-> @[s]]] ]

\* server.js 258 and 267: the logger calls of a logout.
LogoutCalls(d, user, headers) ==
    IF user.kind = "undefined" THEN <<>>
    ELSE << LogCall("BANKING_LOGOUT", Actor(d, user),
                    [sessionId |-> headers["x-session-id"]]),
            LogCall("BANKING_LOGOUT_SUCCESS", Actor(d, user), EmptyObject) >>

LogoutRoute(headers) ==
    LET auth == Authenticate(data, headers)
        calls == IF auth.pass THEN LogoutCalls(data, auth.user, headers) ELSE <<>>
        out == Outcome(IF auth.pass
                       THEN Logout(data, auth.user, headers)
                       ELSE [res |-> NotAuthenticated, data |-> data], calls)
    IN  /\ req' = [path |-> "/logout", headers |-> headers, body |-> EmptyObject]
        /\ res' = out.res
        /\ data' = out.data
        /\ Telemetry(calls)
        /\ UNCHANGED <<clock, draws>>

LogoutRequest(headers) == Idle /\ LogoutRoute(headers) /\ UNCHANGED inbox

\* ------------------------------------------------------------------ clock
Tick ==
    /\ req = NoRequest
    /\ clock < MaxClock
    /\ clock' = clock + 1
    /\ console' = <<>>
    /\ UNCHANGED <<data, draws, inbox, req, res, customLogger, app, hec, handlers>>

\* The response has been sent and the request is over: the server is idle
\* until the next request arrives.
Finish ==
    /\ req # NoRequest
    /\ res # NoResponse
    /\ req' = NoRequest
    /\ res' = NoResponse
    /\ console' = <<>>
    /\ UNCHANGED <<data, clock, draws, inbox, customLogger, app, hec, handlers>>

Next ==
    \/ \E body \in LoginBodies : LoginRequest(body)
    \/ \E headers \in SessionHeaders(data, clock, draws) :
          \E body \in IF Stored(data, headers) THEN TransferBodies ELSE {SampleTransfer} :
             TransferRequest(headers, body)
    \/ \E headers \in SessionHeaders(data, clock, draws) :
          \E query \in IF Stored(data, headers) THEN BalanceQueries ELSE {EmptyObject} :
             BalanceRequest(headers, query)
    \/ \E headers \in SessionHeaders(data, clock, draws) :
          \E query \in IF Stored(data, headers) THEN TransactionsQueries ELSE {EmptyObject} :
             TransactionsRequest(headers, query)
    \/ \E headers \in SessionHeaders(data, clock, draws) : LogoutRequest(headers)
    \/ Tick
    \/ Finish

Spec == Init /\ [][Next]_vars

\* ============================================== the server and its collector
\* The same server started with any SPLUNK_HEC_* environment, a request
\* being received in one step and answered in a later one, and the event
\* collector answering the POST requests in flight, in any order or never.
TelemetryInit ==
    /\ data = [users |-> testUsers, sessions |-> EmptyObject, transactions |-> <<>>]
    /\ clock = 0
    /\ draws = 0
    /\ inbox = {}
    /\ req = NoRequest
    /\ res = NoResponse
    /\ customLogger \in {CustomSplunkLogger(ServerLoggerOptions, env) : env \in Envs}
    /\ app = "starting"
    /\ console = <<>>
    /\ hec = <<>>
    /\ handlers = {}

\* server.js 272-277: an exception in the listen callback is uncaught and
\* ends the process.
Started(lg) == IF Raises(lg) THEN "crashed" ELSE "listening"

\* server.js 275
StartupCalls == <<LogCall("BANKING_APP_STARTUP", EmptyObject, [port |-> PORT])>>

Startup ==
    /\ app = "starting"
    /\ app' = Started(customLogger)
    /\ console' = LinesOf(customLogger, StartupCalls)
    /\ hec' = RequestsOf(customLogger, StartupCalls, clock)
    /\ UNCHANGED <<data, clock, draws, inbox, req, res, customLogger, handlers>>

\* The requests of a client that logs in when it holds no session and then
\* uses the session it holds.
TelemetryRequests ==
    LET sessions == {"x-session-id" :> s : s \in DOMAIN data.sessions}
        Request(path, headers, body) == [path |-> path, headers |-> headers, body |-> body]
    IN  { Request("/login", EmptyObject, body) :
            body \in IF sessions = {}
                     THEN { [username |-> "john_doe", password |-> "password123"],
                            [username |-> "nobody", password |-> "password123"] }
                     ELSE {} }
        \cup { Request("/transfer", headers, body) :
                 headers \in sessions,
                 body \in { SampleTransfer @@ c :
                              c \in Opt("correlationId", {"custom-correlation-123", ""}) }
                          \cup {[amount |-> 0, toAccount |-> "savings"]} }
        \cup { Request("/balance", headers, EmptyObject) :
                 headers \in sessions \cup {EmptyObject} }
        \cup { Request("/transactions", headers, query) :
                 headers \in sessions, query \in {EmptyObject} }
        \cup { Request("/logout", headers, EmptyObject) : headers \in sessions }

WithinBounds(request) ==
    /\ request.path = "/login" => LoginWithinBounds(request.body)
    /\ request.path = "/transfer" => TransferWithinBounds(request.headers, request.body)

\* A request arrives from a client that waits for each response before it
\* sends the next request; Node calls the handler in a later turn.
Receive(request) ==
    /\ Idle /\ inbox = {}
    /\ WithinBounds(request)
    /\ inbox' = {request}
    /\ console' = <<>>
    /\ UNCHANGED <<data, clock, draws, req, res, customLogger, app, hec, handlers>>

\* A handler that sends its response once the collector has answered.
RespondsAfterDelivery == hec = <<>>

\* The handler runs as soon as Node reaches the request: nothing in it
\* awaits the requests sendToSplunk has made.
RespondsWhen == TRUE

\* Node runs the handler of one received request, from its first line to
\* its last: guard and handlers read and write data.json synchronously and
\* await nothing.
Respond ==
    \E request \in inbox :
        /\ Idle
        /\ RespondsWhen
        /\ inbox' = inbox \ {request}
        /\ \/ request.path = "/login" /\ LoginRoute(request.body)
           \/ request.path = "/transfer" /\ TransferRoute(request.headers, request.body)
           \/ request.path = "/balance" /\ BalanceRoute(request.headers, request.body)
           \/ request.path = "/transactions"
                /\ TransactionsRoute(request.headers, request.body)
           \/ request.path = "/logout" /\ LogoutRoute(request.headers)

Remove(seq, i) == SubSeq(seq, 1, i - 1) \o SubSeq(seq, i + 1, Len(seq))

HecStatusCodes == {200, 400}

\* part_003 91-104: the collector answers request i; res.on('end') writes
\* the outcome to the console.
HecResponse(i, statusCode) ==
    /\ i \in DOMAIN hec
    /\ hec' = Remove(hec, i)
    /\ console' =
         IF statusCode = 200
         THEN << [ tag |-> "[CUSTOM-SPLUNK]", message |-> "HEC request successful",
                   statusCode |-> statusCode ] >>
         ELSE << [ tag |-> "[CUSTOM-SPLUNK]", message |-> "HEC request failed with status",
                   statusCode |-> statusCode ],
                 [tag |-> "[CUSTOM-SPLUNK]", message |-> "Response body"] >>
    /\ UNCHANGED <<data, clock, draws, inbox, req, res, customLogger, app, handlers>>

\* part_003 106-108: request i fails in transport.
HecError(i) ==
    /\ i \in DOMAIN hec
    /\ hec' = Remove(hec, i)
    /\ console' = <<[tag |-> "[CUSTOM-SPLUNK]", message |-> "HEC request error"]>>
    /\ UNCHANGED <<data, clock, draws, inbox, req, res, customLogger, app, handlers>>

TelemetryNext ==
    \/ Startup
    \/ \E request \in TelemetryRequests : Receive(request)
    \/ Respond
    \/ \E i \in DOMAIN hec : \E statusCode \in HecStatusCodes : HecResponse(i, statusCode)
    \/ \E i \in DOMAIN hec : HecError(i)
    \/ Tick
    \/ Finish

TelemetrySpec == TelemetryInit /\ [][TelemetryNext]_vars

\* ------------------------------------------- the server under fair scheduling
\* The server started with endpoint and token, serving logins and transfers.
LiveInit == TelemetryInit /\ Sends(customLogger)

LiveRequests ==
    {request \in TelemetryRequests :
        /\ request.path \in {"/login", "/transfer"}
        /\ ~Has(request.body, "correlationId")}

LiveNext ==
    \/ Startup
    \/ \E request \in LiveRequests : Receive(request)
    \/ Respond
    \/ \E i \in DOMAIN hec : \E statusCode \in HecStatusCodes : HecResponse(i, statusCode)
    \/ \E i \in DOMAIN hec : HecError(i)
    \/ Finish

\* Node's event loop runs the handler of a request it has received; nothing
\* obliges the collector to answer.
TelemetryLive == LiveInit /\ [][LiveNext]_vars /\ WF_vars(Respond)

\* ------------------------------------------- transfers in flight together
\* The transfer handler followed statement by statement while other transfer
\* requests wait: the ledger it loads (line 119), the checks (120-138), the
\* debit, credit and push on its own copy (141-152), the save and the response
\* (154-165).
testSessions ==
    [ session_test_123 |-> [userId |-> "john_doe", createdAt |-> 0],
      session_test_456 |-> [userId |-> "jane_smith", createdAt |-> 0] ]

RaceInit ==
    /\ data = [users |-> testUsers, sessions |-> testSessions, transactions |-> <<>>]
    /\ clock = 0
    /\ draws = 0
    /\ inbox = {}
    /\ req = NoRequest
    /\ res = NoResponse
    /\ customLogger = CustomSplunkLogger(ServerLoggerOptions, EmptyObject)
    /\ app = "listening"
    /\ console = <<>>
    /\ hec = <<>>
    /\ handlers = {}

\* Transfers of john_doe out of the checking account, which holds 5000.
RaceRequests ==
    { [ path |-> "/transfer",
        headers |-> "x-session-id" :> "session_test_123",
        body |-> [amount |-> amount, toAccount |-> toAccount] ] :
      amount \in {2000, 3000}, toAccount \in {"savings", "investments"} }

\* The handlers that have not sent their response.
Active == {h \in handlers : h.pc # "done"}

InFlight == Cardinality(inbox) + Cardinality(Active)

\* A request arrives while others may be waiting or being handled.
Arrive(request) ==
    /\ app = "listening"
    /\ request \notin inbox \cup {h.request : h \in handlers}
    /\ InFlight < MaxInFlight
    /\ Len(data.transactions) + InFlight < MaxTxns
    /\ draws + InFlight < MaxDraws
    /\ inbox' = inbox \cup {request}
    /\ UNCHANGED <<data, clock, draws, req, res, customLogger, app, console, hec, handlers>>

\* An event loop that starts a handler while another is between two of its
\* statements.
Preempts == TRUE

\* Node calls the next handler when the call stack is empty: guard and
\* handler are synchronous (readFileSync, writeFileSync, nothing awaited), so
\* the handler that is running reaches its response first.
RunsToCompletion == Active = {}

Replace(h, g) == (handlers \ {h}) \cup {g}

\* server.js 45-59 and 99-119: the guard, the first two logger calls and
\* loadData. `with` holds the requests in flight at that moment.
Begin(request) ==
    LET auth == Authenticate(data, request.headers)
        calls == IF auth.pass
                 THEN TransferCalls(data, auth.user, request.body, clock, draws + 1)
                 ELSE <<>>
        first == SubSeq(calls, 1, 2)
        h == [ request |-> request, with |-> inbox \ {request},
               loaded |-> data, local |-> data ]
    IN  /\ request \in inbox
        /\ RunsToCompletion
        /\ inbox' = inbox \ {request}
        /\ handlers' = handlers \cup
             { IF auth.pass
               THEN h @@ [ pc |-> "check", user |-> auth.user, res |-> NoResponse,
                           calls |-> SubSeq(calls, 3, Len(calls)) ]
               ELSE h @@ [ pc |-> "done", user |-> [kind |-> "undefined", key |-> UndefinedKey],
                           res |-> NotAuthenticated, calls |-> <<>> ] }
        /\ console' = LinesOf(customLogger, first)
        /\ hec' = RequestsOf(customLogger, first, clock)
        /\ UNCHANGED <<data, clock, draws, req, res, customLogger, app>>

\* server.js 114-138: the checks, made on the ledger the handler loaded.
Check(h) ==
    LET out == Transfer(h.local, h.user, h.request.body, clock, draws + 1)
    IN  /\ h \in handlers /\ h.pc = "check"
        /\ handlers' = Replace(h, IF out.res.status = 200
                                  THEN [h EXCEPT !.pc = "debit"]
                                  ELSE [h EXCEPT !.pc = "done", !.res = out.res])
        /\ console' = <<>>
        /\ UNCHANGED <<data, clock, draws, inbox, req, res, customLogger, app, hec>>

\* server.js 141-152: debit, credit and push change the handler's copy.
DebitAndCredit(h) ==
    LET out == Transfer(h.local, h.user, h.request.body, clock, draws + 1)
    IN  /\ h \in handlers /\ h.pc = "debit"
        /\ handlers' = Replace(h, [h EXCEPT !.pc = "save", !.local = out.data,
                                            !.res = out.res])
        /\ console' = <<>>
        /\ UNCHANGED <<data, clock, draws, inbox, req, res, customLogger, app, hec>>

\* server.js 154-165: saveData writes the handler's copy over data.json, the
\* success is logged and the response sent.
Save(h) ==
    /\ h \in handlers /\ h.pc = "save"
    /\ data' = h.local
    /\ draws' = draws + 1
    /\ handlers' = Replace(h, [h EXCEPT !.pc = "done"])
    /\ console' = LinesOf(customLogger, h.calls)
    /\ hec' = RequestsOf(customLogger, h.calls, clock)
    /\ UNCHANGED <<clock, inbox, req, res, customLogger, app>>

RaceNext ==
    \/ \E request \in RaceRequests : Arrive(request)
    \/ \E request \in inbox : Begin(request)
    \/ \E h \in handlers : Check(h)
    \/ \E h \in handlers : DebitAndCredit(h)
    \/ \E h \in handlers : Save(h)

RaceSpec == RaceInit /\ [][RaceNext]_vars

\* ================================================================ claims
\* A step that handles a request to `path`: the server was idle before it
\* and holds the request and its response after it.
Handles(path) == req = NoRequest /\ req'.path = path

\* The request carries the id of a session the store holds before the step,
\* and that session belongs to a user of the ledger.
SessionUser == data.sessions[req'.headers["x-session-id"]].userId
Authenticated == Stored(data, req'.headers) /\ Has(data.users, SessionUser)

\* The accounts of the authenticated user before and after the step.
AccountsBefore == data.users[SessionUser].accounts
AccountsAfter == data'.users[SessionUser].accounts

\* The source and destination the transfer request names.
FromOf(r) == IF Has(r.body, "fromAccount") THEN r.body.fromAccount ELSE "checking"
ToOf(r) == IF Has(r.body, "toAccount") THEN r.body.toAccount ELSE UndefinedKey

\* Exactly one record is appended and it carries the request's fields.
AppendsRecord ==
    /\ Len(data'.transactions) = Len(data.transactions) + 1
    /\ SubSeq(data'.transactions, 1, Len(data.transactions)) = data.transactions
    /\ LET txn == data'.transactions[Len(data'.transactions)]
       IN  /\ txn.from = FromOf(req')
           /\ txn.to = ToOf(req')
           /\ txn.userId = SessionUser
           /\ txn.amount = req'.body.amount

\* A successful transfer between two account kinds of the user.
TransferBetweenOwn ==
    /\ Handles("/transfer") /\ Authenticated /\ res'.status = 200
    /\ Has(AccountsBefore, FromOf(req')) /\ Has(AccountsBefore, ToOf(req'))

\* C1 as stated: for every successful transfer and every pair of the user's
\* account kinds, the source balance falls by amount, the destination balance
\* rises by amount, and exactly one matching record is appended.
C1_AsStated ==
    [][TransferBetweenOwn =>
         /\ AccountsAfter[FromOf(req')].balance
              = AccountsBefore[FromOf(req')].balance - req'.body.amount
         /\ AccountsAfter[ToOf(req')].balance
              = AccountsBefore[ToOf(req')].balance + req'.body.amount
         /\ AppendsRecord]_vars

\* C1 amended: the two balance equations hold when source and destination
\* are different account kinds of the user; when they are the same kind the
\* balance is unchanged; in both cases exactly one matching record is appended.
C1_DistinctAccounts ==
    [][TransferBetweenOwn =>
         /\ FromOf(req') # ToOf(req') =>
              /\ AccountsAfter[FromOf(req')].balance
                   = AccountsBefore[FromOf(req')].balance - req'.body.amount
              /\ AccountsAfter[ToOf(req')].balance
                   = AccountsBefore[ToOf(req')].balance + req'.body.amount
         /\ FromOf(req') = ToOf(req') =>
              AccountsAfter[FromOf(req')].balance = AccountsBefore[FromOf(req')].balance
         /\ AppendsRecord]_vars

\* A transfer between two different accounts of the user has succeeded.
C1_Witness ==
    /\ req.path = "/transfer" /\ res.status = 200
    /\ FromOf(req) = "checking" /\ ToOf(req) = "savings"
    /\ data.transactions # <<>>

\* The funds check is reached with an amount above the source balance.
Overdraw ==
    /\ Handles("/transfer") /\ Authenticated
    /\ Has(req'.body, "amount")
    /\ Has(AccountsBefore, FromOf(req'))
    /\ req'.body.amount > AccountsBefore[FromOf(req')].balance

\* C2 as stated: every transfer whose amount exceeds the source balance is
\* answered 400 'Insufficient funds' and leaves the persisted state unchanged.
C2_AsStated ==
    [][Overdraw => res' = Error(400, "Insufficient funds") /\ data' = data]_vars

\* C2 amended: ... every such transfer whose toAccount passes the destination
\* check, which runs before the funds check; with a destination that fails
\* it the answer is 400 'Invalid destination account', state unchanged too.
C2_AfterDestinationCheck ==
    [][Overdraw =>
         /\ data' = data
         /\ res' = IF Lookup(AccountsBefore, ToOf(req')) = "undefined"
                   THEN Error(400, "Invalid destination account")
                   ELSE Error(400, "Insufficient funds")]_vars

\* A transfer of more than the source holds has been refused.
C2_Witness ==
    /\ req.path = "/transfer" /\ res = Error(400, "Insufficient funds")
    /\ req.body.amount = 6000 /\ FromOf(req) = "checking"

\* C3: a transfer request of an authenticated client whose amount is zero,
\* negative or missing is answered 400 'Invalid amount', and balances,
\* transaction log and sessions are unchanged.
C3_InvalidAmount ==
    [][(/\ Handles("/transfer") /\ Stored(data, req'.headers)
        /\ (Has(req'.body, "amount") => req'.body.amount <= 0))
       => res' = Error(400, "Invalid amount") /\ data' = data]_vars

\* A transfer of zero has been refused.
C3_Witness ==
    /\ req.path = "/transfer" /\ res = Error(400, "Invalid amount")
    /\ Has(req.body, "amount") /\ req.body.amount = 0

\* C4 as stated: a transfer succeeds only between account kinds of the
\* authenticated user; a fromAccount that is none of them is answered 400
\* 'Invalid source account', a toAccount that is none of them 400 'Invalid
\* destination account', and nothing is changed. (Stated for requests with a
\* valid amount, and for the destination with a valid source, the order in
\* which the handler checks.)
C4_AsStated ==
    [][(/\ Handles("/transfer") /\ Authenticated
        /\ Has(req'.body, "amount") /\ req'.body.amount > 0)
       => /\ res'.status = 200 =>
               Has(AccountsBefore, FromOf(req')) /\ Has(AccountsBefore, ToOf(req'))
          /\ ~Has(AccountsBefore, FromOf(req')) =>
               res' = Error(400, "Invalid source account") /\ data' = data
          /\ Has(AccountsBefore, FromOf(req')) /\ ~Has(AccountsBefore, ToOf(req')) =>
               res' = Error(400, "Invalid destination account") /\ data' = data]_vars

\* The records of `userId` credit minus debit the account `kind` by this much.
RECURSIVE SignedSum(_, _, _)
SignedSum(txns, userId, kind) ==
    IF txns = <<>> THEN 0
    ELSE LET txn == Head(txns)
         IN  (IF txn.userId = userId /\ txn.to = kind THEN txn.amount ELSE 0)
             - (IF txn.userId = userId /\ txn.from = kind THEN txn.amount ELSE 0)
             + SignedSum(Tail(txns), userId, kind)

\* C5: every account's balance is its initial balance plus the amounts of
\* its owner's records to that account kind minus those from it.
C5_BalanceFromRecords ==
    \A u \in DOMAIN data.users : \A k \in DOMAIN data.users[u].accounts :
        data.users[u].accounts[k].balance
          = testUsers[u].accounts[k].balance + SignedSum(data.transactions, u, k)

\* Two transfers are on record, the second one moving money between two
\* accounts of its owner.
C5_Witness ==
    /\ Len(data.transactions) = 2
    /\ LET txn == data.transactions[2]
       IN  /\ Has(data.users[txn.userId].accounts, txn.from)
           /\ Has(data.users[txn.userId].accounts, txn.to)
           /\ txn.from # txn.to

RECURSIVE Total(_, _)
Total(accounts, kinds) ==
    IF kinds = {} THEN 0
    ELSE LET k == CHOOSE x \in kinds : TRUE
         IN  accounts[k].balance + Total(accounts, kinds \ {k})

\* C6 as stated: the balances of a user always add up to the sum of that
\* user's initial balances.
C6_AsStated ==
    \A u \in DOMAIN data.users :
        Total(data.users[u].accounts, DOMAIN data.users[u].accounts)
          = Total(testUsers[u].accounts, DOMAIN testUsers[u].accounts)

Protected == {"/transfer", "/balance", "/transactions", "/logout"}

\* A login naming a user of the ledger with that user's password.
LoginOfUser ==
    /\ Handles("/login")
    /\ Has(req'.body, "username") /\ Has(data.users, req'.body.username)
    /\ Has(req'.body, "password")
    /\ req'.body.password = data.users[req'.body.username].password

\* C7: a login with an existing username and the matching password stores
\* the returned sessionId mapped to that user; the session stays so until a
\* logout carrying it; and every request to a protected route carrying it
\* passes the guard and runs as that user: a balance inquiry reads that
\* user's account, a history holds only that user's records, a transfer
\* touches no other user and signs its record with that user, a logout ends it.
C7_SessionAuthenticates ==
    /\ [][LoginOfUser =>
            /\ res'.status = 200
            /\ ~Has(data.sessions, res'.body.sessionId)
            /\ Has(data'.sessions, res'.body.sessionId)
            /\ data'.sessions[res'.body.sessionId].userId = req'.body.username]_vars
    /\ [][\A s \in DOMAIN data.sessions :
            \/ Has(data'.sessions, s) /\ data'.sessions[s] = data.sessions[s]
            \/ Handles("/logout") /\ req'.headers = ("x-session-id" :> s)]_vars
    /\ [][\A path \in Protected : Handles(path) /\ Authenticated =>
            /\ res'.status \notin {401, 500}
            /\ \A v \in DOMAIN data.users \ {SessionUser} : data'.users[v] = data.users[v]
            /\ path = "/balance" /\ ~Has(req'.body, "account") =>
                 /\ res'.status = 200
                 /\ res'.body.balance = AccountsBefore["checking"].balance
            /\ path = "/transactions" =>
                 \A i \in DOMAIN res'.body.transactions :
                     res'.body.transactions[i].userId = SessionUser
            /\ path = "/transfer" /\ res'.status = 200 =>
                 data'.transactions[Len(data'.transactions)].userId = SessionUser
            /\ path = "/logout" =>
                 /\ res'.status = 200
                 /\ ~Has(data'.sessions, req'.headers["x-session-id"])]_vars

\* A session created by a login at time 0 answers a balance inquiry at time 1.
C7_Witness ==
    /\ clock = 1
    /\ req.path = "/balance" /\ res.status = 200
    /\ Has(req.headers, "x-session-id")
    /\ Has(data.sessions, req.headers["x-session-id"])
    /\ data.sessions[req.headers["x-session-id"]].createdAt = 0
    /\ data.sessions[req.headers["x-session-id"]].userId = "jane_smith"
    /\ res.body.balance = data.users["jane_smith"].accounts["checking"].balance

\* C8 as stated: a login whose username is no user of the ledger, or whose
\* password is missing or differs from the stored one, is answered 401
\* 'Invalid credentials' and leaves the session store as it was.
C8_AsStated ==
    [][(/\ Handles("/login")
        /\ IF Has(req'.body, "username") /\ Has(data.users, req'.body.username)
           THEN \/ ~Has(req'.body, "password")
                \/ req'.body.password # data.users[req'.body.username].password
           ELSE TRUE)
       => res' = Error(401, "Invalid credentials") /\ data'.sessions = data.sessions]_vars

\* The session ids handed out so far.
HandedOut == {SessionId(t, n) : t \in 0..clock, n \in 1..draws}

\* C9: a successful logout carrying s leaves s absent from the session
\* store; an id that was handed out and is absent never enters the store
\* again; and every request to a protected route carrying such an id is
\* answered 401 'Not authenticated'.
C9_LogoutEndsSession ==
    /\ [][Handles("/logout") /\ res'.status = 200 =>
            ~Has(data'.sessions, req'.headers["x-session-id"])]_vars
    /\ [][\A s \in HandedOut \ DOMAIN data.sessions : ~Has(data'.sessions, s)]_vars
    /\ [][\A path \in Protected :
            (/\ Handles(path)
             /\ Has(req'.headers, "x-session-id")
             /\ req'.headers["x-session-id"] \in HandedOut \ DOMAIN data.sessions)
            => res' = NotAuthenticated /\ data' = data]_vars

\* The session created by the first login, at time 0, has been logged out
\* and a transfer carrying its id is refused.
C9_Witness ==
    /\ clock = 0 /\ draws >= 1
    /\ ~Has(data.sessions, SessionId(0, 1))
    /\ req.path = "/transfer"
    /\ req.headers = ("x-session-id" :> SessionId(0, 1))
    /\ res = NotAuthenticated

\* C10 as stated: a request to a protected route with no x-session-id
\* header, or with one that names no session in the store, is answered 401
\* 'Not authenticated' and the ledger is unchanged.
C10_AsStated ==
    [][\A path \in Protected : Handles(path) /\ ~Stored(data, req'.headers) =>
          res' = NotAuthenticated /\ data' = data]_vars

\* ------------------------------------------------------ telemetry claims
\* A step in which a handler runs and sends its response.
Served == res = NoResponse /\ res' # NoResponse

\* What guard and handler compute from the request, the ledger and the
\* clock alone.
Unlogged(request) ==
    IF request.path = "/login" THEN Login(data, request.body, clock, draws + 1)
    ELSE LET auth == Authenticate(data, request.headers)
         IN  IF ~auth.pass THEN [res |-> NotAuthenticated, data |-> data]
             ELSE IF request.path = "/transfer"
             THEN Transfer(data, auth.user, request.body, clock, draws + 1)
             ELSE IF request.path = "/balance"
             THEN Balance(data, auth.user, request.body)
             ELSE IF request.path = "/transactions"
             THEN Transactions(data, auth.user, request.body)
             ELSE Logout(data, auth.user, request.headers)

\* The logger calls the handler of the request makes.
CallsOf(request) ==
    IF request.path = "/login" THEN LoginCalls(data, request.body, clock, draws + 1)
    ELSE LET auth == Authenticate(data, request.headers)
         IN  IF ~auth.pass THEN <<>>
             ELSE IF request.path = "/transfer"
             THEN TransferCalls(data, auth.user, request.body, clock, draws + 1)
             ELSE IF request.path = "/balance"
             THEN BalanceCalls(data, auth.user, request.body)
             ELSE IF request.path = "/transactions"
             THEN TransactionsCalls(data, auth.user, request.body, clock)
             ELSE LogoutCalls(data, auth.user, request.headers)

\* A step in which the collector's answer, or the failure to reach it, is
\* written to the console.
HecAnswered ==
    /\ console' # <<>>
    /\ console'[1].tag = "[CUSTOM-SPLUNK]"
    /\ Has(console'[1], "message")

\* A step in which the logger is called: a handler that passed the guard,
\* or the listen callback.
LoggerCalls ==
    IF Served THEN CallsOf(req')
    ELSE IF app = "starting" /\ app' # "starting" THEN StartupCalls
    ELSE <<>>

\* What holds of every configuration: a served request is answered with the
\* status and body, and leaves the ledger, that guard and handler compute from
\* the request and the ledger alone; an answer or failure of the collector
\* changes neither ledger nor response nor the requests waiting; and a server
\* that is listening stays up.
ServedAsUnlogged ==
    /\ [][Served => /\ res' = Unlogged(req').res
                    /\ data' = Unlogged(req').data]_vars
    /\ [][HecAnswered => UNCHANGED <<data, req, res, inbox, draws, app>>]_vars
    /\ [][app = "listening" => app' = "listening"]_vars

\* C11 as stated: whatever the logger's configuration and whatever the
\* collector does (answers 200, answers another status, fails in transport,
\* stays silent), responses and ledger are those of the server without
\* telemetry, and no failure inside a logger call reaches its caller: the
\* listen callback's call included, whose failure ends the process.
C11_AsStated ==
    /\ ServedAsUnlogged
    /\ [][LoggerCalls # <<>> => app' # "crashed"]_vars

\* C12: a logger without endpoint or without token never makes a request,
\* never throws (the handler's response is the one it computes, the process
\* stays up), and each of its log() calls writes one console line that holds
\* the event type; a request is in flight only when both are configured.
C12_ConsoleOnly ==
    /\ [][~Configured(customLogger) =>
            /\ hec' = <<>>
            /\ app' # "crashed"
            /\ Served => res' = Unlogged(req').res
            /\ Len(console') = Len(LoggerCalls)
            /\ \A i \in DOMAIN LoggerCalls :
                 LoggerCalls[i].method = "log" =>
                     /\ console'[i].tag = "[CUSTOM-SPLUNK]"
                     /\ console'[i].EVENT = LoggerCalls[i].event]_vars
    /\ [][hec' # <<>> => Has(customLogger, "endpoint") /\ Has(customLogger, "token")]_vars

\* A logger with an endpoint and no token has logged a successful login.
C12_Witness ==
    /\ Has(customLogger, "endpoint") /\ ~Has(customLogger, "token")
    /\ req.path = "/login" /\ res.status = 200
    /\ Len(console) = 3
    /\ console[3].EVENT = "BANKING_LOGIN_SUCCESS"
    /\ hec = <<>>

\* The envelopes handed to delivery that the collector has not answered.
Envelopes == {hec[i].postData : i \in DOMAIN hec}
BuiltByLog(entry) == Has(entry.event, "event_type")
HecFields(entry) ==
    /\ Has(entry, "time")
    /\ Has(entry, "host") /\ entry.host # ""
    /\ Has(entry, "source") /\ entry.source # ""
    /\ Has(entry, "sourcetype") /\ entry.sourcetype # ""

Generated(entry) ==
    \E k \in 1..6 : entry.event.correlation_id = FreshCorrelationId(entry.time, k)

\* C14 as stated: in every envelope built by log(), event.correlation_id is
\* the payload's correlationId whenever the payload has one, whatever its
\* value, and a generated identifier otherwise.
C14_AsStated ==
    \A entry \in Envelopes : BuiltByLog(entry) =>
        IF Has(entry.event.data, "correlationId")
        THEN entry.event.correlation_id = entry.event.data.correlationId
        ELSE Generated(entry)

\* C14 amended: ... is the payload's correlationId whenever the payload has
\* one that is not falsy (the empty string, like 0, null and false, counts as
\* none), and a generated identifier otherwise.
C14_TruthyIdEchoed ==
    \A entry \in Envelopes : BuiltByLog(entry) =>
        IF Has(entry.event.data, "correlationId") /\ entry.event.data.correlationId # ""
        THEN entry.event.correlation_id = entry.event.data.correlationId
        ELSE Generated(entry)

\* The envelope of a transfer request whose body carries its own correlation
\* id is in flight, next to the envelope of the transfer's success.
C14_Witness ==
    /\ \E entry \in Envelopes :
          /\ BuiltByLog(entry) /\ entry.event.event_type = "BANKING_TRANSFER_INITIATED"
          /\ Has(entry.event.data, "correlationId")
          /\ entry.event.correlation_id = "custom-correlation-123"
    /\ \E entry \in Envelopes :
          /\ BuiltByLog(entry) /\ entry.event.event_type = "BANKING_TRANSFER_SUCCESS"
          /\ entry.event.correlation_id = data.transactions[Len(data.transactions)].correlationId

\* C15 as stated: with endpoint and token configured, every log() and
\* debug() call makes exactly one POST request that carries exactly the
\* envelope of that call, and raises nothing; when the collector answers or
\* the transport fails, that request is over, no request is made in its
\* place, and the outcome goes to the console only.
C15_AsStated ==
    /\ [][Configured(customLogger) /\ LoggerCalls # <<>> =>
            /\ app' # "crashed"
            /\ Served => res' = Unlogged(req').res
            /\ Len(hec') = Len(LoggerCalls)
            /\ \A i \in DOMAIN hec' :
                 /\ hec'[i].options.method = "POST"
                 /\ hec'[i].postData = EntryOf(customLogger, LoggerCalls[i], clock, i)]_vars
    /\ [][HecAnswered =>
            /\ \E i \in DOMAIN hec : hec' = Remove(hec, i)
            /\ UNCHANGED <<data, req, res, inbox, app>>]_vars

\* C17: a received request is answered whether or not the collector ever
\* answers, and at the moment the response is sent every request the
\* handler's logger calls made is still in flight: the handler has waited
\* for none of them.
C17_ResponseNeverWaits ==
    /\ (inbox # {}) ~> (inbox = {} /\ res # NoResponse)
    /\ [][Served /\ Sends(customLogger) =>
            /\ Len(hec') = Len(CallsOf(req'))
            /\ res' = Unlogged(req').res]_vars

\* A transfer has been answered 200 while its three deliveries and nothing
\* else are in flight.
C17_Witness ==
    /\ req.path = "/transfer" /\ res.status = 200
    /\ Len(hec) = 3
    /\ hec[3].postData.event.event_type = "BANKING_TRANSFER_SUCCESS"

\* ------------------------------------------------ claims about concurrency
\* Two handlers of the same user and source account, the second of which was
\* in flight (received, waiting) when the first began, and both have
\* answered.
AnsweredTogether(f, g) ==
    /\ f.pc = "done" /\ g.pc = "done"
    /\ g.request \in f.with
    /\ f.request.headers = g.request.headers
    /\ FromOf(f.request) = FromOf(g.request)

LoadedBalance(h) ==
    h.loaded.users[h.user.key].accounts[FromOf(h.request)].balance

\* C16 as stated, of the transfers the claim is about: when two transfers of
\* one user from one source account were in flight at the same time, both
\* checked their funds against the same loaded balance.
C16_AsStated ==
    \A f, g \in handlers : AnsweredTogether(f, g) => LoadedBalance(g) = LoadedBalance(f)

\* C16 amended: transfers in flight at the same time are handled one after
\* the other. At most one handler is between its load and its response; the
\* ledger it loaded is the ledger on disk until it saves; so every transfer
\* answered 200 is on record (no update is lost), the source balance is the
\* opening balance less the recorded amounts, and no balance is negative.
C16_HandlersSerialized ==
    /\ Cardinality(Active) <= 1
    /\ \A h \in Active : h.loaded = data
    /\ Cardinality({h \in handlers : h.pc = "done" /\ h.res.status = 200})
         = Len(data.transactions)
    /\ data.users["john_doe"].accounts["checking"].balance
         = testUsers["john_doe"].accounts["checking"].balance
             + SignedSum(data.transactions, "john_doe", "checking")
    /\ \A u \in DOMAIN data.users : \A a \in DOMAIN data.users[u].accounts :
         data.users[u].accounts[a].balance >= 0

\* Two transfers of 3000 out of the 5000 checking account were in flight
\* together; the first was answered 200, and the second, which loaded the
\* balance the first saved, was refused.
C16_Witness ==
    \E f, g \in handlers :
        /\ AnsweredTogether(f, g)
        /\ f.request.body.amount = 3000 /\ g.request.body.amount = 3000
        /\ f.res.status = 200
        /\ LoadedBalance(g) = 2000
        /\ g.res = Error(400, "Insufficient funds")

\* ------------------------------------------------- claims about the stores
\* C18: the transaction log is append-only: every step of every operation
\* (login, transfer, balance, transactions with its filters and its sort,
\* logout) leaves each record of the log where and as it was, so the log
\* before the step is a prefix of the log after it.
C18_AppendOnly ==
    [][/\ Len(data'.transactions) >= Len(data.transactions)
       /\ SubSeq(data'.transactions, 1, Len(data.transactions)) = data.transactions]_vars

\* The log holds an older and then a newer record, and a listing has just
\* returned them newest first.
C18_Witness ==
    /\ Len(data.transactions) = 2
    /\ data.transactions[1].timestamp # data.transactions[2].timestamp
    /\ req.path = "/transactions" /\ res.status = 200
    /\ res.body.transactions = <<data.transactions[2], data.transactions[1]>>

\* C19 as stated: the userId of every session in the store is a user of
\* the ledger.
C19_AsStated ==
    \A sessionId \in DOMAIN data.sessions :
        Has(data.users, data.sessions[sessionId].userId)

\* The records a listing returns are in non-increasing order of timestamp.
NewestFirst(txns) ==
    \A i, j \in DOMAIN txns :
        i < j => ParseDate(txns[i].timestamp) >= ParseDate(txns[j].timestamp)

\* How many times the record occurs in the sequence.
Count(txns, txn) == Cardinality({i \in DOMAIN txns : txns[i] = txn})

\* C20: a listing for a stored session answers 200 with records of the log
\* whose userId is the session's user only, newest first; when the query
\* names no filter, the listing holds every record of that user, as often as
\* the log does.
C20_OwnRecordsNewestFirst ==
    [][Handles("/transactions") /\ Stored(data, req'.headers) =>
          LET listed == res'.body.transactions
              Own(txn) == txn.userId = SessionUser
              own == SelectSeq(data.transactions, Own)
          IN  /\ res'.status = 200
              /\ \A i \in DOMAIN listed :
                    /\ listed[i].userId = SessionUser
                    /\ Count(data.transactions, listed[i]) >= 1
              /\ NewestFirst(listed)
              /\ req'.body = EmptyObject =>
                    /\ Len(listed) = Len(own)
                    /\ \A i \in DOMAIN own :
                          Count(listed, own[i]) = Count(own, own[i])]_vars

\* A user with an older and a newer record asked for the listing without a
\* filter and got both, the newer one first.
C20_Witness ==
    /\ req.path = "/transactions" /\ req.body = EmptyObject /\ res.status = 200
    /\ Len(res.body.transactions) = 2
    /\ ParseDate(res.body.transactions[1].timestamp)
         > ParseDate(res.body.transactions[2].timestamp)

\* ------------------------------------------------ claims about the listing
\* The query of the listing handled by the step, and the dates it names.
Filters == req'.body

\* The record of the log satisfies every filter the query names; no record
\* is at or after, or at or before, a date that cannot be parsed.
Satisfies(txn) ==
    /\ txn.userId = SessionUser
    /\ Has(Filters, "accountType") =>
          txn.from = Filters.accountType \/ txn.to = Filters.accountType
    /\ Has(Filters, "startDate") =>
          /\ IsDate(Filters.startDate)
          /\ ParseDate(txn.timestamp) >= ParseDate(Filters.startDate)
    /\ Has(Filters, "endDate") =>
          /\ IsDate(Filters.endDate)
          /\ ParseDate(txn.timestamp) <= ParseDate(Filters.endDate)

\* C21: a listing for a stored session whose query names filters answers
\* 200 with exactly the records of the session's user that satisfy all the
\* filters at once, the date bounds inclusive; when no record matches, the
\* list is empty.
C21_ExactlyTheMatching ==
    [][/\ Handles("/transactions") /\ Stored(data, req'.headers)
       /\ Filters # EmptyObject
       => LET listed == res'.body.transactions
              matching == SelectSeq(data.transactions, Satisfies)
          IN  /\ res'.status = 200
              /\ Len(listed) = Len(matching)
              /\ \A i \in DOMAIN matching :
                    Count(listed, matching[i]) = Count(matching, matching[i])]_vars

\* The log holds two records of the user, one of them at the instant of the
\* end bound, and the listing up to that bound returned that one only.
C21_Witness ==
    /\ req.path = "/transactions" /\ res.status = 200
    /\ Has(req.body, "endDate") /\ ~Has(req.body, "startDate")
    /\ Len(data.transactions) = 2
    /\ data.transactions[1].userId = data.transactions[2].userId
    /\ Len(res.body.transactions) = 1
    /\ res.body.transactions[1].timestamp = req.body.endDate

\* The query without the start date.
WithoutStart == [key \in DOMAIN Filters \ {"startDate"} |-> Filters[key]]

\* A listing for a stored session whose startDate is not a parseable date.
UnparseableStart ==
    /\ Handles("/transactions") /\ Stored(data, req'.headers)
    /\ Has(Filters, "startDate") /\ ~IsDate(Filters.startDate)

\* C22 as stated: a startDate that is not a parseable date is a no-op
\* filter: the listing is the one the same query without startDate returns.
C22_AsStated ==
    [][UnparseableStart =>
          res' = Transactions(data, Authenticate(data, req'.headers).user,
                              WithoutStart).res]_vars

\* C22 amended: a startDate that is not a parseable date removes every
\* record: the listing answers 200 with an empty list, whatever the log
\* holds and whatever the other filters are, and the ledger is unchanged.
C22_UnparseableDateEmptiesList ==
    [][UnparseableStart =>
          /\ res' = Json(200, [transactions |-> <<>>])
          /\ data' = data]_vars

\* A user with a record on the log asked for the listing from "yesterday"
\* and got an empty list.
C22_Witness ==
    /\ req.path = "/transactions"
    /\ Stored(data, req.headers)
    /\ Has(req.body, "startDate") /\ ~IsDate(req.body.startDate)
    /\ DOMAIN req.body = {"startDate"}
    /\ \E i \in DOMAIN data.transactions :
          data.transactions[i].userId = data.sessions[req.headers["x-session-id"]].userId
    /\ res = Json(200, [transactions |-> <<>>])

\* ------------------------------------------- claims about reads after writes
\* The account a balance inquiry names.
AccountOf(r) == IF Has(r.body, "account") THEN r.body.account ELSE "checking"

\* A balance inquiry of a user of the ledger about one of the user's accounts
\* answers with the balance the ledger holds.
ReadsPersistedBalance ==
    [][Handles("/balance") /\ Authenticated /\ Has(AccountsBefore, AccountOf(req')) =>
          /\ res'.status = 200
          /\ res'.body.balance = AccountsBefore[AccountOf(req')].balance]_vars

\* A listing without filter holds as many records as the log holds of the
\* user.
ListsEveryRecord ==
    [][Handles("/transactions") /\ Authenticated /\ req'.body = EmptyObject =>
          LET Own(txn) == txn.userId = SessionUser
          IN  Len(res'.body.transactions) = Len(SelectSeq(data.transactions, Own))]_vars

\* C23 as stated: a successful transfer of a from X to Y answers with
\* newBalance equal to X's saved balance, which is its balance before minus
\* a; Y's saved balance is its balance before plus a; one matching record is
\* appended; and later inquiries and listings return what was saved.
C23_AsStated ==
    /\ [][TransferBetweenOwn =>
            /\ res'.body.newBalance = AccountsAfter[FromOf(req')].balance
            /\ res'.body.newBalance = AccountsBefore[FromOf(req')].balance - req'.body.amount
            /\ AccountsAfter[ToOf(req')].balance
                 = AccountsBefore[ToOf(req')].balance + req'.body.amount
            /\ AppendsRecord]_vars
    /\ ReadsPersistedBalance
    /\ ListsEveryRecord

\* C23 amended: the same, with the two equations for X and Y two different
\* accounts; when X and Y are the same account, newBalance and the saved
\* balance are the balance before.
C23_WritesVisible ==
    /\ [][TransferBetweenOwn =>
            /\ res'.body.newBalance = AccountsAfter[FromOf(req')].balance
            /\ FromOf(req') # ToOf(req') =>
                 /\ res'.body.newBalance
                      = AccountsBefore[FromOf(req')].balance - req'.body.amount
                 /\ AccountsAfter[ToOf(req')].balance
                      = AccountsBefore[ToOf(req')].balance + req'.body.amount
            /\ FromOf(req') = ToOf(req') =>
                 res'.body.newBalance = AccountsBefore[FromOf(req')].balance
            /\ AppendsRecord]_vars
    /\ ReadsPersistedBalance
    /\ ListsEveryRecord

\* After john_doe's transfer of 100 from checking (5000) to savings (10000),
\* the only record of the log, a balance inquiry on savings returned 10100.
C23_Witness ==
    /\ req.path = "/balance" /\ AccountOf(req) = "savings"
    /\ res.status = 200 /\ res.body.balance = 10100
    /\ Len(data.transactions) = 1
    /\ data.transactions[1].from = "checking" /\ data.transactions[1].to = "savings"
    /\ data.transactions[1].amount = 100 /\ data.transactions[1].userId = "john_doe"
    /\ data.users["john_doe"].accounts["checking"].balance = 4900

\* ------------------------------------------------ claims about the envelope
\* C24: the envelope of every log() call names the actor the call was given:
\* user_id is the actor's id, else the actor's username, else "unknown";
\* user_name is the actor's name, else "unknown". The listen callback passes
\* an empty actor, the login handler {username}, the other handlers req.user.
C24_ActorFallbacks ==
    [][Sends(customLogger) /\ LoggerCalls # <<>> =>
          /\ Len(hec') = Len(LoggerCalls)
          /\ \A i \in DOMAIN LoggerCalls :
                LoggerCalls[i].method = "log" =>
                    LET actor == LoggerCalls[i].user
                        event == hec'[i].postData.event
                    IN  /\ event.event_type = LoggerCalls[i].event
                        /\ Has(actor, "id") => event.user_id = actor.id
                        /\ ~Has(actor, "id") /\ Has(actor, "username") =>
                              event.user_id = actor.username
                        /\ ~Has(actor, "id") /\ ~Has(actor, "username") =>
                              event.user_id = "unknown"
                        /\ Has(actor, "name") => event.user_name = actor.name
                        /\ ~Has(actor, "name") => event.user_name = "unknown"]_vars

\* A login has succeeded: the envelope of the attempt, whose actor is
\* {username}, names the username and no name; the envelope of the success,
\* whose actor is the user record, names the record's id and name.
C24_Witness ==
    /\ req.path = "/login" /\ res.status = 200
    /\ Len(hec) = 3
    /\ hec[1].postData.event.user_id = req.body.username
    /\ hec[1].postData.event.user_name = "unknown"
    /\ hec[3].postData.event.user_id = "john_doe"
    /\ hec[3].postData.event.user_name = "John Doe"

\* ------------------------------------------ claims about record identifiers
\* C25 as stated: no two records of the transaction log have the same id,
\* whenever their transfers completed.
C25_AsStated ==
    \A i, j \in DOMAIN data.transactions :
        i # j => data.transactions[i].id # data.transactions[j].id

\* ------------------------------------------------- claims about balances
\* C26: no balance of the ledger is ever negative, whatever requests the
\* server has handled; and every transfer that debits an account of the user
\* passed its funds check on the balance the ledger held when the handler
\* ran, which is the balance the debit is taken from.
C26_NeverNegative ==
    /\ [](\A u \in DOMAIN data.users : \A a \in DOMAIN data.users[u].accounts :
            data.users[u].accounts[a].balance >= 0)
    /\ [][Handles("/transfer") /\ Authenticated /\ res'.status = 200
          /\ Has(AccountsBefore, FromOf(req')) =>
             /\ AccountsBefore[FromOf(req')].balance >= req'.body.amount
             /\ FromOf(req') # ToOf(req') =>
                  AccountsAfter[FromOf(req')].balance
                    = AccountsBefore[FromOf(req')].balance - req'.body.amount]_vars

\* After a transfer had drawn on the checking account, a transfer of more
\* than the account holds was refused.
C26_Witness ==
    /\ req.path = "/transfer" /\ FromOf(req) = "checking"
    /\ res = Error(400, "Insufficient funds")
    /\ \E i \in DOMAIN data.transactions :
          /\ data.transactions[i].from = "checking"
          /\ data.transactions[i].to = "savings"
          /\ data.transactions[i].userId = data.sessions[req.headers["x-session-id"]].userId
    /\ req.body.amount
         > data.users[data.sessions[req.headers["x-session-id"]].userId].accounts["checking"].balance

\* ------------------------------------------------ claims about frame effects
\* The session id the request names.
Named == req'.headers["x-session-id"]

\* C27: a logout of a stored session answers 200 and deletes that session
\* and nothing else: every other session is stored as it was, users and
\* transaction log are unchanged; and transfer, balance and transactions
\* requests leave the session store as it was, whatever their outcome.
C27_LogoutDeletesOneSession ==
    /\ [][Handles("/logout") /\ Stored(data, req'.headers) =>
            /\ res' = Json(200, [success |-> TRUE])
            /\ DOMAIN data'.sessions = DOMAIN data.sessions \ {Named}
            /\ \A s \in DOMAIN data'.sessions : data'.sessions[s] = data.sessions[s]
            /\ data'.users = data.users
            /\ data'.transactions = data.transactions]_vars
    /\ [][\A path \in Protected \ {"/logout"} :
            Handles(path) => data'.sessions = data.sessions]_vars

\* A user with two sessions has logged out of one: the other one is still
\* stored.
C27_Witness ==
    /\ req.path = "/logout" /\ res.status = 200
    /\ ~Has(data.sessions, req.headers["x-session-id"])
    /\ console # <<>> /\ Has(console[1], "EVENT") /\ Has(console[1].USER, "id")
    /\ console[1].EVENT = "BANKING_LOGOUT"
    /\ \E s \in DOMAIN data.sessions : data.sessions[s].userId = console[1].USER.id

\* C28: balance and transactions requests leave users, balances, sessions
\* and transaction log as they were, whatever their parameters and outcome;
\* a successful login adds exactly one session to the store and changes
\* nothing else.
C28_ReadOnlyAndLoginFrame ==
    /\ [][Handles("/balance") \/ Handles("/transactions") => data' = data]_vars
    /\ [][Handles("/login") /\ res'.status = 200 =>
            /\ data'.users = data.users
            /\ data'.transactions = data.transactions
            /\ ~Has(data.sessions, res'.body.sessionId)
            /\ DOMAIN data'.sessions = DOMAIN data.sessions \cup {res'.body.sessionId}
            /\ \A s \in DOMAIN data.sessions : data'.sessions[s] = data.sessions[s]]_vars

\* A user with a record on the log asked for the balance of an account that
\* does not exist and was answered 400.
C28_Witness ==
    /\ req.path = "/balance" /\ res = Error(400, "Invalid account type")
    /\ Stored(data, req.headers)
    /\ data.transactions # <<>>

\* ------------------------------------------- claims about transfer events
\* The BANKING_TRANSFER_SUCCESS lines written, and envelopes handed to
\* delivery, by the step.
SuccessLines ==
    {i \in DOMAIN console' : /\ Has(console'[i], "EVENT")
                             /\ console'[i].EVENT = "BANKING_TRANSFER_SUCCESS"}
SuccessEnvelopes ==
    {i \in DOMAIN hec' : /\ BuiltByLog(hec'[i].postData)
                         /\ hec'[i].postData.event.event_type = "BANKING_TRANSFER_SUCCESS"}
NewRecord == data'.transactions[Len(data'.transactions)]

\* C29: a step that appends a record to the transaction log makes exactly
\* one BANKING_TRANSFER_SUCCESS call, the last logger call of the handler
\* (after the save): its line carries the record's correlationId, and when
\* the logger sends, its one envelope has that value as correlation_id; a
\* served request that appends no record makes no such call; and only a
\* served request appends.
C29_OneSuccessEventPerRecord ==
    /\ [][Served =>
            IF Len(data'.transactions) > Len(data.transactions)
            THEN /\ Len(data'.transactions) = Len(data.transactions) + 1
                 /\ SuccessLines = {Len(console')}
                 /\ console'[Len(console')].DATA.correlationId = NewRecord.correlationId
                 /\ IF Sends(customLogger)
                    THEN /\ SuccessEnvelopes = {Len(hec')}
                         /\ hec'[Len(hec')].postData.event.correlation_id
                              = NewRecord.correlationId
                    ELSE hec' = <<>>
            ELSE SuccessLines = {} /\ SuccessEnvelopes = {}]_vars
    /\ [][~Served => data'.transactions = data.transactions]_vars

\* The second record of the log has been appended and the envelope of its
\* success event, carrying the record's correlation id, is in flight.
C29_Witness ==
    /\ req.path = "/transfer" /\ res.status = 200
    /\ Len(data.transactions) = 2
    /\ Len(hec) = 3
    /\ hec[3].postData.event.event_type = "BANKING_TRANSFER_SUCCESS"
    /\ hec[3].postData.event.correlation_id = data.transactions[2].correlationId
    /\ data.transactions[2].correlationId # data.transactions[1].correlationId

\* ------------------------------------------------ claims about disclosure
\* The passwords the store holds.
StoredPasswords == {data.users[u].password : u \in DOMAIN data.users}

\* C30 as stated: no output carries a stored password: not the body of a
\* successful login's response, not an envelope handed to delivery (in
\* user_id, user_name or the payload), not a console line of the logger (in
\* USER or DATA).
C30_AsStated ==
    /\ req.path = "/login" /\ res.status = 200 =>
          ~Has(res.body, "password") /\ ~Has(res.body.user, "password")
    /\ \A entry \in Envelopes : BuiltByLog(entry) =>
          /\ entry.event.user_id \notin StoredPasswords
          /\ entry.event.user_name \notin StoredPasswords
          /\ ~Has(entry.event.data, "password")
    /\ \A i \in DOMAIN console : Has(console[i], "USER") =>
          /\ ~Has(console[i].USER, "password")
          /\ ~Has(console[i].DATA, "password")
====
